---- MODULE Spec2Model ----
(***************************************************************************)
(* Model of the Database<T> class of src/src/index.ts: an insertion-ordered *)
(* Map held in memory and mirrored, as one JSON string, to a dynamic       *)
(* property of the host object.                                            *)
(*                                                                         *)
(* T is modelled as the README's record shape cut down to two numeric      *)
(* fields, age and money, validated by `age > 0` and `money >= 0`.  Every  *)
(* handler is an operator from the store (data, slot), its arguments and   *)
(* the behaviour of the host during the call (env) to the store after the  *)
(* call and the call's outcome; the actions apply the handlers.            *)
(***************************************************************************)
EXTENDS Integers, Sequences, FiniteSets, TLC

\* ------------------------------------------------------------------ bounds
MaxBatch == 2         \* longest list handed to createMany/updateMany/deleteMany
MaxFaults == 1        \* most calls of one behaviour in which the host fails
MaxRows == 4          \* most entries of a collection that is only read

\* ------------------------------------------------------- the record type T
Fields == <<"age", "money">>
Ages == 0 .. 2
Moneys == -1 .. 1
Nums == (-1 .. 2) \cup {17, 20, 25, 30}
Records == [age : Ages, money : Moneys]

\* README validateUser, fields age and money
validatorAccepts(field, value) ==
    IF field = "age" THEN value > 0 ELSE value >= 0

\* ------------------------------------------------------------ Map<string,T>
\* The Map is the sequence of its entries <<id, record>> in insertion order.
MapHas(d, id) == \E i \in 1 .. Len(d) : d[i][1] = id

MapGet(d, id) == d[CHOOSE i \in 1 .. Len(d) : d[i][1] = id][2]

\* an existing key keeps its position, a new key goes last
MapSet(d, id, rec) ==
    IF MapHas(d, id)
    THEN [i \in 1 .. Len(d) |-> IF d[i][1] = id THEN <<id, rec>> ELSE d[i]]
    ELSE Append(d, <<id, rec>>)

MapDelete(d, id) == SelectSeq(d, LAMBDA e : e[1] # id)

MapKeys(d) == {d[i][1] : i \in 1 .. Len(d)}

\* ---------------------------------------------------------------- JSON text
\* A JSON text is the sequence of its tokens.  The text of a list of entries
\* is "[", then for every entry its id and the decimal text of each field,
\* then "]".
NumText(n) == ToString(n)

IsNumText(t) == \E n \in Nums : NumText(n) = t

ParseNum(t) == CHOOSE n \in Nums : NumText(n) = t

RECURSIVE EntriesText(_)
EntriesText(entries) ==
    IF entries = <<>> THEN <<>>
    ELSE <<entries[1][1],
           NumText(entries[1][2].age),
           NumText(entries[1][2].money)>> \o EntriesText(Tail(entries))

JSONstringify(entries) == <<"[">> \o EntriesText(entries) \o <<"]">>

RECURSIVE ParseEntries(_)
ParseEntries(toks) ==
    IF toks = <<>> THEN <<>>
    ELSE <<<<toks[1], [age |-> ParseNum(toks[2]), money |-> ParseNum(toks[3])]>>>>
         \o ParseEntries(SubSeq(toks, 4, Len(toks)))

\* JSON.parse: ok = FALSE stands for the SyntaxError / TypeError thrown on a
\* text that is not a list of [id, record] pairs
JSONparse(text) ==
    LET n == Len(text)
        body == SubSeq(text, 2, n - 1)
        wellFormed ==
            /\ n >= 2
            /\ text[1] = "["
            /\ text[n] = "]"
            /\ (n - 2) % 3 = 0
            /\ \A i \in 1 .. (n - 2) : (i % 3 # 1) => IsNumText(body[i])
    IN IF wellFormed
       THEN [ok |-> TRUE, entries |-> ParseEntries(body)]
       ELSE [ok |-> FALSE, entries |-> <<>>]

\* ------------------------------------------------------------------ results
Ok(v) == [tag |-> "ok", value |-> v]
Err(t, detail) == [tag |-> t, value |-> detail]

\* the store after a call, the call's outcome, and the numbers of completed
\* setDynamicProperty calls and of generateId calls made by the call
Outcome(d, s, r, w, g) ==
    [data |-> d, slot |-> s, res |-> r, writes |-> w, gens |-> g]

\* ----------------------------------------------------------------- validate
\* validate that stops at the first field whose validator fails
validationErrorsFirstOnly(validators, rec) ==
    IF ~validators THEN {}
    ELSE LET failing == {j \in 1 .. Len(Fields) :
                           ~validatorAccepts(Fields[j], rec[Fields[j]])}
         IN IF failing = {} THEN {}
            ELSE {Fields[CHOOSE j \in failing : \A k \in failing : j <= k]}

\* the validationErrors array of validate, as the set of failing fields
validationErrors(validators, rec) ==
    IF ~validators THEN {}
    ELSE {Fields[i] : i \in {j \in 1 .. Len(Fields) :
                               ~validatorAccepts(Fields[j], rec[Fields[j]])}}

\* TRUE when validate returns true, FALSE when it throws VALIDATION_FAILED
validate(validators, rec) == validationErrors(validators, rec) = {}

\* -------------------------------------------------------------- generateId
maxAttempts == 100
IdLength == 16
HexChars == <<"0", "1", "2", "3", "4", "5", "6", "7",
              "8", "9", "a", "b", "c", "d", "e", "f">>

\* Math.floor(Math.random() * 16).toString(16)
toString16(digit) == HexChars[digit + 1]

RECURSIVE join(_)
join(chars) == IF chars = <<>> THEN "" ELSE chars[1] \o join(Tail(chars))

\* one candidate id from the 16 digits drawn for it
candidateId(digits) == join([i \in 1 .. IdLength |-> toString16(digits[i])])

\* the digit sequences Math.random is taken to produce in the model
DrawDigits == {0, 15}
Draws == {[i \in 1 .. IdLength |-> k] : k \in DrawDigits}
IdOf == [ds \in Draws |-> candidateId(ds)]
Ids == {IdOf[ds] : ds \in Draws}
DrawOrders == {o \in [1 .. Cardinality(Draws) -> Draws] :
                 \A i, j \in DOMAIN o : i # j => o[i] # o[j]}

\* The candidates Math.random yields over one call of a handler: the first n
\* candidates are `first`, the later ones run through `order` over and over.
Streams ==
    {st \in [n : {0, maxAttempts - 1, maxAttempts}, first : Draws, order : DrawOrders] :
        st.first = st.order[IF st.n = 0 THEN 1 ELSE Len(st.order)]}

drawn(stream, i) ==
    IF i <= stream.n
    THEN IdOf[stream.first]
    ELSE IdOf[stream.order[((i - stream.n - 1) % Len(stream.order)) + 1]]

\* generateId without the `while (this.data.has(id))` test
generateIdUnchecked(d, stream, pos) ==
    [ok |-> TRUE, id |-> drawn(stream, pos + 1), pos |-> pos + 1]

\* generateId whose loop tests the attempt count after the draw, so that it
\* draws one candidate more before it gives up
generateIdOneMore(d, stream, pos) ==
    LET has(k) == MapHas(d, drawn(stream, pos + k))
    IN IF \A k \in 1 .. (maxAttempts + 1) : has(k)
       THEN [ok |-> FALSE, id |-> "", pos |-> pos + maxAttempts + 1]
       ELSE LET attempts == CHOOSE k \in 1 .. (maxAttempts + 1) :
                                ~has(k) /\ \A j \in 1 .. (k - 1) : has(j)
            IN [ok |-> TRUE, id |-> drawn(stream, pos + attempts),
                pos |-> pos + attempts]

\* The do-while loop of generateId, started with `pos` candidates of the
\* stream already used: it returns the first of its first maxAttempts
\* candidates that is not a key of the Map, and throws DUPLICATE_KEY
\* (ok = FALSE) when all of them are keys.
generateId(d, stream, pos) ==
    LET free == {k \in 1 .. maxAttempts : ~MapHas(d, drawn(stream, pos + k))}
    IN IF free = {}
       THEN [ok |-> FALSE, id |-> "", pos |-> pos + maxAttempts]
       ELSE LET attempts == CHOOSE k \in free : \A j \in free : k <= j
            IN [ok |-> TRUE, id |-> drawn(stream, pos + attempts),
                pos |-> pos + attempts]

\* saveChanges that defers the write
saveChangesDeferred(d, slot, writeOk) ==
    IF writeOk
    THEN [ok |-> TRUE, slot |-> slot]
    ELSE [ok |-> FALSE, slot |-> slot]

\* writeOk = FALSE: setDynamicProperty throws and the slot keeps its value
saveChanges(d, slot, writeOk) ==
    IF writeOk
    THEN [ok |-> TRUE, slot |-> JSONstringify(d)]
    ELSE [ok |-> FALSE, slot |-> slot]

\* -------------------------------------------------------------- initialize
\* the for loop of initialize that passes over an entry failing validation
RECURSIVE loadEntriesSkipping(_, _, _)
loadEntriesSkipping(validators, entries, d) ==
    IF entries = <<>> THEN [ok |-> TRUE, data |-> d, bad |-> {}]
    ELSE IF validate(validators, entries[1][2])
         THEN loadEntriesSkipping(validators, Tail(entries),
                                  MapSet(d, entries[1][1], entries[1][2]))
         ELSE loadEntriesSkipping(validators, Tail(entries), d)

\* the for loop of initialize: the entries set before the first one on which
\* validate throws, and the validationErrors of that throw
RECURSIVE loadEntries(_, _, _)
loadEntries(validators, entries, d) ==
    IF entries = <<>> THEN [ok |-> TRUE, data |-> d, bad |-> {}]
    ELSE IF validate(validators, entries[1][2])
         THEN loadEntries(validators, Tail(entries),
                          MapSet(d, entries[1][1], entries[1][2]))
         ELSE [ok |-> FALSE, data |-> d,
               bad |-> validationErrors(validators, entries[1][2])]

initialize(slot, validators) ==
    IF slot = <<>> THEN Outcome(<<>>, slot, Ok(""), 0, 0)
    ELSE LET parsed == JSONparse(slot)
             loaded == loadEntries(validators, parsed.entries, <<>>)
         IN IF ~parsed.ok
            THEN Outcome(<<>>, slot, Err("INITIALIZATION_ERROR", ""), 0, 0)
            ELSE IF ~loaded.ok
                 THEN Outcome(loaded.data, slot,
                              Err("VALIDATION_FAILED", loaded.bad), 0, 0)
                 ELSE Outcome(loaded.data, slot, Ok(""), 0, 0)

\* the constructor with the upper test written `>= 16`
DatabaseShortNames(nameLength, slot, validators) ==
    IF nameLength < 1 \/ nameLength >= 16
    THEN Outcome(<<>>, slot, Err("INVALID_COLLECTION_NAME", ""), 0, 0)
    ELSE initialize(slot, validators)

\* new Database(collectionName, storageType, collectionValidators)
Database(nameLength, slot, validators) ==
    IF nameLength < 1 \/ nameLength > 16
    THEN Outcome(<<>>, slot, Err("INVALID_COLLECTION_NAME", ""), 0, 0)
    ELSE initialize(slot, validators)

\* --------------------------------------------------------------- handlers
\* env.w[k] says whether the k-th setDynamicProperty of the call succeeds,
\* env.stream is what Math.random yields during the call.

\* the spread with its operands swapped: { ...data, ...existingData }
spreadExistingLast(existing, partial) ==
    existing

\* { ...existingData, ...data }
spread(existing, partial) ==
    [age |-> IF "age" \in DOMAIN partial THEN partial.age ELSE existing.age,
     money |-> IF "money" \in DOMAIN partial THEN partial.money ELSE existing.money]

clear(d, slot, env) ==
    LET saved == saveChanges(<<>>, slot, env.w[1])
    IN IF saved.ok
       THEN Outcome(<<>>, saved.slot, Ok(""), 1, 0)
       ELSE Outcome(<<>>, slot, Err("STORAGE_WRITE_ERROR", ""), 0, 0)

create(d, slot, validators, rec, env) ==
    IF ~validate(validators, rec)
    THEN Outcome(d, slot,
                 Err("VALIDATION_FAILED", validationErrors(validators, rec)), 0, 0)
    ELSE LET gen == generateId(d, env.stream, 0)
         IN IF ~gen.ok
            THEN Outcome(d, slot, Err("DUPLICATE_KEY", ""), 0, 1)
            ELSE IF saveChanges(MapSet(d, gen.id, rec), slot, env.w[1]).ok
                 THEN Outcome(MapSet(d, gen.id, rec),
                              saveChanges(MapSet(d, gen.id, rec), slot, env.w[1]).slot,
                              Ok(gen.id), 1, 1)
                 ELSE Outcome(MapSet(d, gen.id, rec), slot,
                              Err("STORAGE_WRITE_ERROR", ""), 0, 1)

\* the validation pass of createMany stopping after the first item
firstInvalidHeadOnly(validators, items, index) ==
    IF items # <<>> /\ ~validate(validators, items[1]) THEN 0 ELSE -1

\* index (from 0) of the first item that fails validation, -1 if none
RECURSIVE firstInvalid(_, _, _)
firstInvalid(validators, items, index) ==
    IF index >= Len(items) THEN -1
    ELSE IF ~validate(validators, items[index + 1]) THEN index
         ELSE firstInvalid(validators, items, index + 1)

\* the second forEach of createMany drawing every id against the Map as it
\* was before the call
RECURSIVE createAllStaleKeys(_, _, _, _, _)
createAllStaleKeys(d, items, stream, pos, ids) ==
    IF items = <<>> THEN [ok |-> TRUE, data |-> d, ids |-> ids]
    ELSE LET gen == generateId(SubSeq(d, 1, Len(d) - Len(ids)), stream, pos)
         IN IF ~gen.ok
            THEN [ok |-> FALSE, data |-> d, ids |-> ids]
            ELSE createAllStaleKeys(Append(d, <<gen.id, items[1]>>), Tail(items),
                                    stream, gen.pos, Append(ids, gen.id))

\* the second forEach of createMany: generateId and set, item by item
RECURSIVE createAll(_, _, _, _, _)
createAll(d, items, stream, pos, ids) ==
    IF items = <<>> THEN [ok |-> TRUE, data |-> d, ids |-> ids]
    ELSE LET gen == generateId(d, stream, pos)
         IN IF ~gen.ok
            THEN [ok |-> FALSE, data |-> d, ids |-> ids]
            ELSE createAll(MapSet(d, gen.id, items[1]), Tail(items), stream,
                           gen.pos, Append(ids, gen.id))

createMany(d, slot, validators, items, env) ==
    IF firstInvalid(validators, items, 0) >= 0
    THEN Outcome(d, slot,
                 Err("VALIDATION_FAILED", firstInvalid(validators, items, 0)), 0, 0)
    ELSE LET made == createAll(d, items, env.stream, 0, <<>>)
         IN IF ~made.ok
            THEN Outcome(made.data, slot, Err("DUPLICATE_KEY", ""),
                         0, Len(made.ids) + 1)
            ELSE IF saveChanges(made.data, slot, env.w[1]).ok
                 THEN Outcome(made.data, saveChanges(made.data, slot, env.w[1]).slot,
                              Ok(made.ids), 1, Len(made.ids))
                 ELSE Outcome(made.data, slot, Err("STORAGE_WRITE_ERROR", ""),
                              0, Len(made.ids))

\* update that sets the merged record before validating it
updateSetsFirst(d, slot, validators, id, partial, env) ==
    IF ~MapHas(d, id)
    THEN Outcome(d, slot, Err("DOCUMENT_NOT_FOUND", id), 0, 0)
    ELSE LET updatedData == spread(MapGet(d, id), partial)
         IN IF ~validate(validators, updatedData)
            THEN Outcome(MapSet(d, id, updatedData), slot,
                         Err("VALIDATION_FAILED",
                             validationErrors(validators, updatedData)), 0, 0)
            ELSE IF saveChanges(MapSet(d, id, updatedData), slot, env.w[1]).ok
                 THEN Outcome(MapSet(d, id, updatedData),
                              saveChanges(MapSet(d, id, updatedData), slot,
                                          env.w[1]).slot,
                              Ok(""), 1, 0)
                 ELSE Outcome(MapSet(d, id, updatedData), slot,
                              Err("STORAGE_WRITE_ERROR", ""), 0, 0)

update(d, slot, validators, id, partial, env) ==
    IF ~MapHas(d, id)
    THEN Outcome(d, slot, Err("DOCUMENT_NOT_FOUND", id), 0, 0)
    ELSE LET updatedData == spread(MapGet(d, id), partial)
         IN IF ~validate(validators, updatedData)
            THEN Outcome(d, slot,
                         Err("VALIDATION_FAILED",
                             validationErrors(validators, updatedData)), 0, 0)
            ELSE IF saveChanges(MapSet(d, id, updatedData), slot, env.w[1]).ok
                 THEN Outcome(MapSet(d, id, updatedData),
                              saveChanges(MapSet(d, id, updatedData), slot, env.w[1]).slot,
                              Ok(""), 1, 0)
                 ELSE Outcome(MapSet(d, id, updatedData), slot,
                              Err("STORAGE_WRITE_ERROR", ""), 0, 0)

\* the first forEach of updateMany without its validate call
RECURSIVE checkUpdatesIdsOnly(_, _, _, _)
checkUpdatesIdsOnly(d, validators, updates, index) ==
    IF index >= Len(updates) THEN Ok("")
    ELSE IF ~MapHas(d, updates[index + 1].id)
         THEN Err("DOCUMENT_NOT_FOUND", index)
         ELSE checkUpdatesIdsOnly(d, validators, updates, index + 1)

\* the first forEach of updateMany: the error thrown at the first item whose
\* id is missing or whose merge with the record in the Map fails validation
RECURSIVE checkUpdates(_, _, _, _)
checkUpdates(d, validators, updates, index) ==
    IF index >= Len(updates) THEN Ok("")
    ELSE IF ~MapHas(d, updates[index + 1].id)
         THEN Err("DOCUMENT_NOT_FOUND", index)
         ELSE IF ~validate(validators,
                           spread(MapGet(d, updates[index + 1].id),
                                  updates[index + 1].data))
              THEN Err("VALIDATION_FAILED", index)
              ELSE checkUpdates(d, validators, updates, index + 1)

\* the second forEach of updateMany merging every item with the record of
\* the snapshot instead of the record now in the Map
RECURSIVE applyUpdatesFromSnapshot(_, _)
applyUpdatesFromSnapshot(d, updates) ==
    IF updates = <<>> THEN d
    ELSE MapSet(applyUpdatesFromSnapshot(d, SubSeq(updates, 1, Len(updates) - 1)),
                updates[Len(updates)].id,
                spread(MapGet(d, updates[Len(updates)].id),
                       updates[Len(updates)].data))

\* the second forEach of updateMany
RECURSIVE applyUpdates(_, _)
applyUpdates(d, updates) ==
    IF updates = <<>> THEN d
    ELSE applyUpdates(MapSet(d, updates[1].id,
                             spread(MapGet(d, updates[1].id), updates[1].data)),
                      Tail(updates))

\* updateMany whose catch block does not put originalData back
updateManyNoRollback(d, slot, validators, updates, env) ==
    LET checked == checkUpdates(d, validators, updates, 0)
    IN IF checked.tag # "ok"
       THEN Outcome(d, slot, checked, 0, 0)
       ELSE IF saveChanges(applyUpdates(d, updates), slot, env.w[1]).ok
            THEN Outcome(applyUpdates(d, updates),
                         saveChanges(applyUpdates(d, updates), slot, env.w[1]).slot,
                         Ok(""), 1, 0)
            ELSE Outcome(applyUpdates(d, updates), slot,
                         Err("STORAGE_WRITE_ERROR", ""), 0, 0)

updateMany(d, slot, validators, updates, env) ==
    LET originalData == d
        checked == checkUpdates(d, validators, updates, 0)
    IN IF checked.tag # "ok"
       THEN Outcome(originalData, slot, checked, 0, 0)
       ELSE IF saveChanges(applyUpdates(d, updates), slot, env.w[1]).ok
            THEN Outcome(applyUpdates(d, updates),
                         saveChanges(applyUpdates(d, updates), slot, env.w[1]).slot, Ok(""), 1, 0)
            ELSE Outcome(originalData, slot, Err("STORAGE_WRITE_ERROR", ""), 0, 0)

\* delete that does not test whether the id is a key
deleteUnchecked(d, slot, id, env) ==
    IF saveChanges(MapDelete(d, id), slot, env.w[1]).ok
    THEN Outcome(MapDelete(d, id), saveChanges(MapDelete(d, id), slot, env.w[1]).slot,
                 Ok(""), 1, 0)
    ELSE Outcome(MapDelete(d, id), slot, Err("STORAGE_WRITE_ERROR", ""), 0, 0)

delete(d, slot, id, env) ==
    IF ~MapHas(d, id)
    THEN Outcome(d, slot, Err("DOCUMENT_NOT_FOUND", id), 0, 0)
    ELSE IF saveChanges(MapDelete(d, id), slot, env.w[1]).ok
         THEN Outcome(MapDelete(d, id), saveChanges(MapDelete(d, id), slot, env.w[1]).slot,
                      Ok(""), 1, 0)
         ELSE Outcome(MapDelete(d, id), slot, Err("STORAGE_WRITE_ERROR", ""), 0, 0)

\* the existence pass of deleteMany stopping after the first id
firstMissingHeadOnly(d, ids, index) ==
    IF ids # <<>> /\ ~MapHas(d, ids[1]) THEN 0 ELSE -1

\* index (from 0) of the first id that is not a key of the Map, -1 if none
RECURSIVE firstMissing(_, _, _)
firstMissing(d, ids, index) ==
    IF index >= Len(ids) THEN -1
    ELSE IF ~MapHas(d, ids[index + 1]) THEN index
         ELSE firstMissing(d, ids, index + 1)

RECURSIVE deleteAll(_, _)
deleteAll(d, ids) ==
    IF ids = <<>> THEN d ELSE deleteAll(MapDelete(d, ids[1]), Tail(ids))

deleteMany(d, slot, ids, env) ==
    LET originalData == d
    IN IF firstMissing(d, ids, 0) >= 0
       THEN Outcome(originalData, slot,
                    Err("DOCUMENT_NOT_FOUND", firstMissing(d, ids, 0)), 0, 0)
       ELSE IF saveChanges(deleteAll(d, ids), slot, env.w[1]).ok
            THEN Outcome(deleteAll(d, ids), saveChanges(deleteAll(d, ids), slot, env.w[1]).slot,
                         Ok(""), 1, 0)
            ELSE Outcome(originalData, slot, Err("STORAGE_WRITE_ERROR", ""), 0, 0)

findById(d, id) ==
    IF ~MapHas(d, id)
    THEN Err("DOCUMENT_NOT_FOUND", id)
    ELSE Ok([id |-> id, data |-> MapGet(d, id)])

\* export of the Map's values instead of its entries
exportValuesOnly(d) ==
    Ok(<<"[">>
       \o [i \in 1 .. 2 * Len(d) |->
             IF i % 2 = 1 THEN NumText(d[(i + 1) \div 2][2].age)
             ELSE NumText(d[i \div 2][2].money)]
       \o <<"]">>)

export(d) == Ok(JSONstringify(d))

\* the for loop of import: set every entry, in order
RECURSIVE setAll(_, _)
setAll(d, entries) ==
    IF entries = <<>> THEN d
    ELSE setAll(MapSet(d, entries[1][1], entries[1][2]), Tail(entries))

\* import that calls clear before it has validated the entries
importClearsFirst(d, slot, validators, text, env) ==
    LET parsed == JSONparse(text)
        validEntries == SelectSeq(parsed.entries,
                                  LAMBDA e : validate(validators, e[2]))
        cleared == clear(d, slot, env)
        imported == setAll(cleared.data, validEntries)
    IN IF ~parsed.ok
       THEN Outcome(d, slot, Err("IMPORT_ERROR", ""), 0, 0)
       ELSE IF cleared.res.tag # "ok"
            THEN cleared
            ELSE IF Len(validEntries) # Len(parsed.entries)
                 THEN Outcome(cleared.data, cleared.slot,
                              Err("VALIDATION_FAILED",
                                  Len(parsed.entries) - Len(validEntries)), 1, 0)
                 ELSE IF saveChanges(imported, cleared.slot, env.w[2]).ok
                      THEN Outcome(imported,
                                   saveChanges(imported, cleared.slot, env.w[2]).slot,
                                   Ok(""), 2, 0)
                      ELSE Outcome(imported, cleared.slot,
                                   Err("STORAGE_WRITE_ERROR", ""), 1, 0)

import(d, slot, validators, text, env) ==
    LET parsed == JSONparse(text)
        validEntries == SelectSeq(parsed.entries,
                                  LAMBDA e : validate(validators, e[2]))
        cleared == clear(d, slot, env)
        imported == setAll(cleared.data, validEntries)
    IN IF ~parsed.ok
       THEN Outcome(d, slot, Err("IMPORT_ERROR", ""), 0, 0)
       ELSE IF Len(validEntries) # Len(parsed.entries)
            THEN Outcome(d, slot,
                         Err("VALIDATION_FAILED",
                             Len(parsed.entries) - Len(validEntries)), 0, 0)
            ELSE IF cleared.res.tag # "ok"
                 THEN cleared
                 ELSE IF saveChanges(imported, cleared.slot, env.w[2]).ok
                      THEN Outcome(imported,
                                   saveChanges(imported, cleared.slot, env.w[2]).slot,
                                   Ok(""), 2, 0)
                      ELSE Outcome(imported, cleared.slot,
                                   Err("STORAGE_WRITE_ERROR", ""), 1, 0)

\* ------------------------------------------------------------------- reads
\* A predicate handed to findOne / findMany is the set of records on which it
\* returns true and the set on which it throws; given = FALSE is the omitted
\* argument.
predicateThrows(predicate, d) ==
    predicate.given /\ \E i \in 1 .. Len(d) : d[i][2] \in predicate.throws

\* findMany that returns the matches in reverse
findManyReversed(d, predicate) ==
    IF predicateThrows(predicate, d)
    THEN Err("INVALID_QUERY", "findMany")
    ELSE LET kept == IF predicate.given
                     THEN SelectSeq(d, LAMBDA e : e[2] \in predicate.accepts)
                     ELSE d
         IN Ok([i \in 1 .. Len(kept) |->
                  [id |-> kept[Len(kept) + 1 - i][1],
                   data |-> kept[Len(kept) + 1 - i][2]]])

findMany(d, predicate) ==
    IF predicateThrows(predicate, d)
    THEN Err("INVALID_QUERY", "findMany")
    ELSE LET kept == IF predicate.given
                     THEN SelectSeq(d, LAMBDA e : e[2] \in predicate.accepts)
                     ELSE d
         IN Ok([i \in 1 .. Len(kept) |-> [id |-> kept[i][1], data |-> kept[i][2]]])

findOne(d, predicate) ==
    LET found == findMany(d, predicate)
    IN IF found.tag # "ok" THEN found
       ELSE IF found.value = <<>>
            THEN Err("DOCUMENT_NOT_FOUND", "")
            ELSE Ok(found.value[1])

\* String.prototype.toLowerCase on the text of a number: a decimal numeral
\* has no letters
toLowerCase(t) == t

\* String.prototype.includes / startsWith / endsWith
includes(t, u) ==
    \E i \in 1 .. (Len(t) - Len(u) + 1) : SubSeq(t, i, i + Len(u) - 1) = u
startsWith(t, u) == Len(u) <= Len(t) /\ SubSeq(t, 1, Len(u)) = u
endsWith(t, u) == Len(u) <= Len(t) /\ SubSeq(t, Len(t) - Len(u) + 1, Len(t)) = u

FilterOperators == {"==", "!=", ">", "<", ">=", "<=",
                    "contains", "startsWith", "endsWith"}

\* the value of evaluateCondition on an operator of FilterOperators; on any
\* other operator evaluateCondition throws INVALID_QUERY
evaluateCondition(rec, condition) ==
    LET value == rec[condition.field]
        conditionValue == condition.value
    IN CASE condition.operator = "==" -> value = conditionValue
         [] condition.operator = "!=" -> value # conditionValue
         [] condition.operator = ">" -> value > conditionValue
         [] condition.operator = "<" -> value < conditionValue
         [] condition.operator = ">=" -> value >= conditionValue
         [] condition.operator = "<=" -> value <= conditionValue
         [] condition.operator = "contains" ->
               includes(toLowerCase(NumText(value)), toLowerCase(NumText(conditionValue)))
         [] condition.operator = "startsWith" ->
               startsWith(toLowerCase(NumText(value)), toLowerCase(NumText(conditionValue)))
         [] condition.operator = "endsWith" ->
               endsWith(toLowerCase(NumText(value)), toLowerCase(NumText(conditionValue)))
         [] OTHER -> FALSE

\* conditions.every(condition => this.evaluateCondition(data, condition)):
\* "true", "false", or "throw" when an operator outside FilterOperators is
\* reached before a condition came out false
RECURSIVE every(_, _)
every(rec, conditions) ==
    IF conditions = <<>> THEN "true"
    ELSE IF conditions[1].operator \notin FilterOperators THEN "throw"
         ELSE IF ~evaluateCondition(rec, conditions[1]) THEN "false"
              ELSE every(rec, Tail(conditions))

\* searchFields.some(field => String(data[field]).toLowerCase()
\*                                  .includes(lowerCaseTerm))
some(rec, searchFields, lowerCaseTerm) ==
    \E i \in 1 .. Len(searchFields) :
        includes(toLowerCase(NumText(rec[searchFields[i]])), lowerCaseTerm)

\* findLike(term, fields): fields.given = FALSE is the omitted argument, for
\* which the record's own keys are searched
findLike(d, term, fields) ==
    LET lowerCaseTerm == toLowerCase(term)
        kept == SelectSeq(d, LAMBDA e :
                    some(e[2], IF fields.given THEN fields.list ELSE Fields,
                         lowerCaseTerm))
    IN Ok([i \in 1 .. Len(kept) |-> [id |-> kept[i][1], data |-> kept[i][2]]])

\* a read that ends with a call of saveChanges
readSaving(d, slot, r) == Outcome(d, JSONstringify(d), r, 1, 0)

\* findById, findOne, findMany, findLike, query and export hold no
\* this.data.set, this.data.delete or saveChanges: the store after the call
\* is the store before it, whatever the call returns or throws
read(d, slot, r) == Outcome(d, slot, r, 0, 0)

\* the filter of query: the entries on which every condition holds, or the
\* INVALID_QUERY thrown on the first entry that reaches a bad operator
RECURSIVE filterEntries(_, _, _)
filterEntries(d, conditions, kept) ==
    IF d = <<>> THEN [ok |-> TRUE, rows |-> kept]
    ELSE LET verdict == every(d[1][2], conditions)
         IN IF verdict = "throw" THEN [ok |-> FALSE, rows |-> kept]
            ELSE filterEntries(Tail(d), conditions,
                               IF verdict = "true" THEN Append(kept, d[1]) ELSE kept)

\* the comparator of query that returns 0 when the first sort key ties
compareFirstKeyOnly(a, b, sortEntries) ==
    IF sortEntries = <<>> THEN 0
    ELSE IF a[sortEntries[1][1]] = b[sortEntries[1][1]] THEN 0
         ELSE LET comparison == IF a[sortEntries[1][1]] < b[sortEntries[1][1]]
                                THEN -1 ELSE 1
              IN IF sortEntries[1][2] = "asc" THEN comparison ELSE -comparison

\* the comparator handed to results.sort; sortEntries is Object.entries(sort),
\* the <<field, direction>> pairs in the order the keys were given
RECURSIVE compare(_, _, _)
compare(a, b, sortEntries) ==
    IF sortEntries = <<>> THEN 0
    ELSE LET field == sortEntries[1][1]
             direction == sortEntries[1][2]
             aVal == a[field]
             bVal == b[field]
         IN IF aVal = bVal THEN compare(a, b, Tail(sortEntries))
            ELSE LET comparison == IF aVal < bVal THEN -1 ELSE 1
                 IN IF direction = "asc" THEN comparison ELSE -comparison

\* Array.prototype.sort, which is stable: every row goes behind the rows
\* already placed that do not compare greater than it
RECURSIVE sort(_, _, _)
sort(rows, sortEntries, placed) ==
    IF rows = <<>> THEN placed
    ELSE LET before == {i \in 1 .. Len(placed) :
                           compare(placed[i][2], rows[1][2], sortEntries) <= 0}
             at == IF before = {} THEN 0
                   ELSE CHOOSE i \in before : \A j \in before : j <= i
         IN sort(Tail(rows), sortEntries,
                 SubSeq(placed, 1, at) \o <<rows[1]>> \o SubSeq(placed, at + 1, Len(placed)))

\* results.slice(0, limit)
slice(rows, limit) == SubSeq(rows, 1, IF limit < Len(rows) THEN limit ELSE Len(rows))

\* query(conditions, sort, limit): sortEntries = <<>> stands for an omitted
\* sort, limit.given = FALSE for an omitted limit
query(d, conditions, sortEntries, limit) ==
    LET filtered == filterEntries(d, conditions, <<>>)
        sorted == sort(filtered.rows, sortEntries, <<>>)
        results == IF limit.given THEN slice(sorted, limit.n) ELSE sorted
    IN IF ~filtered.ok
       THEN Err("INVALID_QUERY", "operator")
       ELSE IF limit.given /\ limit.n < 0
            THEN Err("INVALID_QUERY", "limit")
            ELSE Ok([i \in 1 .. Len(results) |->
                       [id |-> results[i][1], data |-> results[i][2]]])

\* ------------------------------------------------------------ the inputs
ZeroId == IdOf[[i \in 1 .. IdLength |-> 0]]
OtherId == IdOf[[i \in 1 .. IdLength |-> 15]]

Alice == [age |-> 1, money |-> 0]
Bob == [age |-> 2, money |-> 1]
NoAge == [age |-> 0, money |-> 0]
NoAgeInDebt == [age |-> 0, money |-> -1]

CreateRecords == {Alice, Bob, NoAge, NoAgeInDebt}
BatchRecords == {Alice, NoAge}
Partials == {[age |-> 2], [age |-> 0], [money |-> 1]}
BatchUpdates == {[id |-> ZeroId, data |-> [age |-> 2]],
                 [id |-> ZeroId, data |-> [money |-> 1]],
                 [id |-> OtherId, data |-> [age |-> 0]],
                 [id |-> OtherId, data |-> [money |-> 1]]}

SeqsUpTo(S, n) == UNION {[1 .. k -> S] : k \in 0 .. n}

\* texts that JSON.parse rejects
BrokenTexts == {<<"[", ZeroId, "1", "]">>}
\* lists of entries whose texts are handed to import: empty, valid, in both
\* orders, one id twice, an invalid entry first and last
ImportLists ==
    {<<>>,
     <<<<ZeroId, Alice>>>>,
     <<<<ZeroId, Alice>>, <<OtherId, Bob>>>>,
     <<<<OtherId, Bob>>, <<ZeroId, Alice>>>>,
     <<<<ZeroId, Alice>>, <<ZeroId, Bob>>>>,
     <<<<ZeroId, NoAge>>, <<OtherId, Bob>>>>,
     <<<<OtherId, Bob>>, <<ZeroId, NoAge>>>>}
ImportTexts == {JSONstringify(es) : es \in ImportLists} \cup BrokenTexts
InDebt == [age |-> 1, money |-> -1]
InitialSlots ==
    {<<>>, <<"[">>, JSONstringify(<<>>), JSONstringify(<<<<ZeroId, Alice>>>>),
     JSONstringify(<<<<OtherId, Bob>>, <<ZeroId, NoAge>>>>),
     JSONstringify(<<<<ZeroId, InDebt>>, <<OtherId, NoAge>>>>)}
NameLengths == {0, 1, 16, 17}

\* the collections that are only read: up to MaxRows entries, in the order
\* of their ids or against it
ReadAges == {17, 20, 25, 30}
ReadRecords == {[age |-> 17, money |-> 0], [age |-> 20, money |-> 0],
                [age |-> 30, money |-> 0], [age |-> 25, money |-> 0],
                [age |-> 25, money |-> 1]}
RowIds == [k \in 1 .. MaxRows |-> candidateId([i \in 1 .. IdLength |-> k - 1])]
ReadCollections ==
    UNION {{[i \in 1 .. n |-> <<RowIds[IF up THEN i ELSE n + 1 - i], recs[i]>>] :
               recs \in [1 .. n -> ReadRecords], up \in BOOLEAN} : n \in 0 .. MaxRows}

NoPredicate == [given |-> FALSE, accepts |-> {}, throws |-> {}]
Predicates ==
    {[given |-> TRUE, accepts |-> {r \in ReadRecords : r.age > 18}, throws |-> {}],
     [given |-> TRUE, accepts |-> {r \in ReadRecords : r.money = 1}, throws |-> {}],
     [given |-> TRUE, accepts |-> {}, throws |-> {}],
     [given |-> TRUE, accepts |-> ReadRecords,
      throws |-> {r \in ReadRecords : r.age = 30}]}

Cond(f, o, v) == [field |-> f, operator |-> o, value |-> v]
ConditionLists ==
    {<<>>,
     <<Cond("age", ">", 18)>>,
     <<Cond("age", ">=", 20), Cond("age", "<", 30)>>,
     <<Cond("age", "<=", 25), Cond("age", "!=", 20)>>,
     <<Cond("money", "==", 1)>>,
     <<Cond("age", "startsWith", 2), Cond("age", "endsWith", 0)>>,
     <<Cond("age", "contains", 5)>>,
     <<Cond("money", ">=", 1), Cond("age", "~", 0)>>}
SortOptions ==
    {<<>>, <<<<"age", "asc">>>>, <<<<"age", "desc">>>>,
     <<<<"age", "desc">>, <<"money", "asc">>>>,
     <<<<"money", "desc">>, <<"age", "asc">>>>}
Terms == {"", "2", "17", "0"}
NoFields == [given |-> FALSE, list |-> <<>>]
FieldLists == {NoFields} \cup {[given |-> TRUE, list |-> l] :
                                 l \in {<<>>, <<"age">>, <<"money">>}}
NoLimit == [given |-> FALSE, n |-> 0]
Limits == {NoLimit} \cup {[given |-> TRUE, n |-> k] : k \in {-1, 0, 2}}

\* what the host does during one call: w[k] is whether the k-th
\* setDynamicProperty succeeds, stream is what Math.random yields
Envs(nw, streams) == [w : [1 .. nw -> BOOLEAN], stream : streams]
Writes(env) == \A k \in DOMAIN env.w : env.w[k]
FreshStreams == {st \in Streams : st.n = 0}
AnyStream == CHOOSE st \in FreshStreams : TRUE

\* ---------------------------------------------------------------- the state
VARIABLES
    data,        \* this.data, the entries in insertion order
    slot,        \* the dynamic property of the host; <<>> when it is not set
    validators,  \* whether collectionValidators was given
    built,       \* whether the constructor returned a store
    op,          \* the call that just ended: its name and arguments
    res,         \* the outcome of that call
    writes,      \* completed setDynamicProperty calls of that call
    gens,        \* generateId calls of that call
    faults,      \* calls so far in which the host failed
    rt,          \* progress of an export / clear / import sequence
    host         \* what the host did during that call

vars == <<data, slot, validators, built, op, res, writes, gens, faults, rt, host>>

NoTrip == [phase |-> 0, snap |-> <<>>]

\* the host of a call that neither writes the slot nor draws an id
NoHost == [w |-> <<>>, stream |-> AnyStream]

Init ==
    \E nameLength \in NameLengths, s \in InitialSlots, v \in BOOLEAN :
        LET out == Database(nameLength, s, v)
        IN /\ data = out.data
           /\ slot = out.slot
           /\ validators = v
           /\ built = (out.res.tag = "ok")
           /\ op = [name |-> "constructor", args |-> nameLength]
           /\ res = out.res
           /\ writes = 0
           /\ gens = 0
           /\ faults = 0
           /\ rt = NoTrip
           /\ host = NoHost

\* the errors that report a failure of the host: a throwing
\* setDynamicProperty, a Math.random that never yields a free id
HostFailures == {"STORAGE_WRITE_ERROR", "DUPLICATE_KEY"}

Idle == [name |-> "none", args |-> ""]

\* one call of a handler by the script: the script is single-threaded and
\* makes its next call after it has taken the outcome of the last one
Apply(name, args, out) ==
    /\ built
    /\ op = Idle
    /\ faults' = faults + (IF out.res.tag \in HostFailures THEN 1 ELSE 0)
    /\ faults' <= MaxFaults
    /\ data' = out.data
    /\ slot' = out.slot
    /\ res' = out.res
    /\ writes' = out.writes
    /\ gens' = out.gens
    /\ op' = [name |-> name, args |-> args]
    /\ UNCHANGED <<validators, built>>

Clear(env) ==
    /\ Apply("clear", "", clear(data, slot, env))
    /\ rt' = IF rt.phase = 1 /\ res'.tag = "ok"
             THEN [phase |-> 2, snap |-> rt.snap] ELSE NoTrip
    /\ host' = env

Create(rec, env) ==
    /\ Apply("create", rec, create(data, slot, validators, rec, env))
    /\ rt' = NoTrip
    /\ host' = env

CreateMany(items, env) ==
    /\ Apply("createMany", items, createMany(data, slot, validators, items, env))
    /\ rt' = NoTrip
    /\ host' = env

Update(id, partial, env) ==
    /\ Apply("update", [id |-> id, data |-> partial],
             update(data, slot, validators, id, partial, env))
    /\ rt' = NoTrip
    /\ host' = env

UpdateMany(updates, env) ==
    /\ Apply("updateMany", updates,
             updateMany(data, slot, validators, updates, env))
    /\ rt' = NoTrip
    /\ host' = env

Delete(id, env) ==
    /\ Apply("delete", id, delete(data, slot, id, env))
    /\ rt' = NoTrip
    /\ host' = env

DeleteMany(ids, env) ==
    /\ Apply("deleteMany", ids, deleteMany(data, slot, ids, env))
    /\ rt' = NoTrip
    /\ host' = env

FindById(id) ==
    /\ Apply("findById", id, read(data, slot, findById(data, id)))
    /\ rt' = NoTrip
    /\ host' = NoHost

Export ==
    /\ Apply("export", "", read(data, slot, export(data)))
    /\ rt' = [phase |-> 1, snap |-> data]
    /\ host' = NoHost

Import(text, env) ==
    /\ Apply("import", text, import(data, slot, validators, text, env))
    /\ rt' = IF rt.phase = 2 /\ text = export(rt.snap).value
             THEN [phase |-> 3, snap |-> rt.snap] ELSE NoTrip
    /\ host' = env

FindOne(predicate) ==
    /\ Apply("findOne", predicate, read(data, slot, findOne(data, predicate)))
    /\ rt' = NoTrip
    /\ host' = NoHost

FindMany(predicate) ==
    /\ Apply("findMany", predicate, read(data, slot, findMany(data, predicate)))
    /\ rt' = NoTrip
    /\ host' = NoHost

FindLike(term, fields) ==
    /\ Apply("findLike", [term |-> term, fields |-> fields],
             read(data, slot, findLike(data, term, fields)))
    /\ rt' = NoTrip
    /\ host' = NoHost

Query(conditions, sortEntries, limit) ==
    /\ Apply("query", [conditions |-> conditions, sort |-> sortEntries, limit |-> limit],
             read(data, slot, query(data, conditions, sortEntries, limit)))
    /\ rt' = NoTrip
    /\ host' = NoHost

\* the texts handed to import: the sample texts and the text just exported
TextsNow == ImportTexts \cup (IF rt.phase = 2 THEN {export(rt.snap).value} ELSE {})

\* the hosts tried for a call that makes nw writes: any, while the behaviour
\* may still see a failure; afterwards only the ones that do not fail a write
HostsNow(nw, streams) ==
    IF faults < MaxFaults
    THEN Envs(nw, streams)
    ELSE {env \in Envs(nw, streams \cap FreshStreams) : Writes(env)}

\* the hosts that fail no write
ReliableHosts(nw, streams) == {env \in Envs(nw, streams) : Writes(env)}

\* the script takes the outcome of the call that just ended
Return ==
    /\ op # Idle
    /\ op' = Idle
    /\ res' = Ok("")
    /\ writes' = 0
    /\ gens' = 0
    /\ host' = NoHost
    /\ UNCHANGED <<data, slot, validators, built, faults, rt>>

CreateLists == SeqsUpTo(BatchRecords, MaxBatch)
UpdateLists == SeqsUpTo(BatchUpdates, MaxBatch)
DeleteLists == SeqsUpTo(Ids, MaxBatch)

\* the script has a store and has taken the outcome of its last call
Ready == built /\ op = Idle

\* Every call, with a host whose setDynamicProperty may throw and a
\* Math.random that may keep yielding ids already in the Map.
Next ==
    \/ Ready /\ \E env \in HostsNow(1, {AnyStream}) : Clear(env)
    \/ Ready /\ \E rec \in CreateRecords, env \in HostsNow(1, Streams) : Create(rec, env)
    \/ Ready /\ \E items \in CreateLists, env \in HostsNow(1, Streams) : CreateMany(items, env)
    \/ Ready /\ \E id \in Ids, partial \in Partials, env \in HostsNow(1, {AnyStream}) :
          Update(id, partial, env)
    \/ Ready /\ \E updates \in UpdateLists, env \in HostsNow(1, {AnyStream}) :
          UpdateMany(updates, env)
    \/ Ready /\ \E id \in Ids, env \in HostsNow(1, {AnyStream}) : Delete(id, env)
    \/ Ready /\ \E ids \in DeleteLists, env \in HostsNow(1, {AnyStream}) : DeleteMany(ids, env)
    \/ Ready /\ \E id \in Ids : FindById(id)
    \/ Ready /\ Export
    \/ Return
    \/ Ready /\ \E text \in TextsNow, env \in HostsNow(2, {AnyStream}) : Import(text, env)

Spec == Init /\ [][Next]_vars

\* The same calls with a host that does not fail: every setDynamicProperty
\* succeeds and generateId finds a free id within maxAttempts candidates.
Found == faults' = 0

NextReliable ==
    \/ Ready /\ \E env \in ReliableHosts(1, {AnyStream}) : Clear(env)
    \/ Ready /\ \E rec \in CreateRecords, env \in ReliableHosts(1, Streams) :
          Create(rec, env) /\ Found
    \/ Ready /\ \E items \in CreateLists, env \in ReliableHosts(1, Streams) :
          CreateMany(items, env) /\ Found
    \/ Ready /\ \E id \in Ids, partial \in Partials, env \in ReliableHosts(1, {AnyStream}) :
          Update(id, partial, env)
    \/ Ready /\ \E updates \in UpdateLists, env \in ReliableHosts(1, {AnyStream}) :
          UpdateMany(updates, env)
    \/ Ready /\ \E id \in Ids, env \in ReliableHosts(1, {AnyStream}) : Delete(id, env)
    \/ Ready /\ \E ids \in DeleteLists, env \in ReliableHosts(1, {AnyStream}) :
          DeleteMany(ids, env)
    \/ Ready /\ \E id \in Ids : FindById(id)
    \/ Ready /\ Export
    \/ Return
    \/ Ready /\ \E text \in TextsNow, env \in ReliableHosts(2, {AnyStream}) : Import(text, env)

SpecReliable == Init /\ [][NextReliable]_vars

\* The read calls on a store constructed, with validators, on a slot that
\* holds a collection of up to MaxRows entries.
InitRead ==
    \E rows \in ReadCollections :
        LET out == Database(1, JSONstringify(rows), TRUE)
        IN /\ data = out.data
           /\ slot = out.slot
           /\ validators = TRUE
           /\ built = (out.res.tag = "ok")
           /\ op = [name |-> "constructor", args |-> 1]
           /\ res = out.res
           /\ writes = 0
           /\ gens = 0
           /\ faults = 0
           /\ rt = NoTrip
           /\ host = NoHost

NextRead ==
    \/ Ready /\ \E predicate \in Predicates : FindOne(predicate)
    \/ Ready /\ \E predicate \in Predicates \cup {NoPredicate} : FindMany(predicate)
    \/ Ready /\ \E conditions \in ConditionLists, sortEntries \in SortOptions, limit \in Limits :
          Query(conditions, sortEntries, limit)
    \/ Ready /\ \E id \in {RowIds[1], RowIds[MaxRows], OtherId} : FindById(id)
    \/ Ready /\ \E term \in Terms, fields \in FieldLists : FindLike(term, fields)
    \/ Ready /\ Export
    \/ Return

SpecRead == InitRead /\ [][NextRead]_vars

\* ------------------------------------------------------------- properties
\* the collection a slot decodes to
Decoded(s) == IF s = <<>> THEN <<>> ELSE setAll(<<>>, JSONparse(s).entries)

IsPrefix(d, e) == Len(d) <= Len(e) /\ \A i \in 1 .. Len(d) : e[i] = d[i]

BatchCalls == {"createMany", "updateMany", "deleteMany", "import"}
MutatingCalls == {"create", "createMany", "update", "updateMany", "delete",
                  "deleteMany", "import", "clear"}

\* C1: a create of a record that passes every validator (any record when no
\* validators are configured) returns an id; findById of that id on the
\* store after the call returns {id, record}; the collection has grown by
\* exactly one entry and every earlier entry is as it was.
C1_CreateThenFind ==
    [][(op'.name = "create" /\ validate(validators, op'.args)) =>
          /\ res'.tag = "ok"
          /\ findById(data', res'.value).tag = "ok"
          /\ findById(data', res'.value).value
                = [id |-> res'.value, data |-> op'.args]
          /\ Len(data') = Len(data) + 1
          /\ IsPrefix(data, data')]_vars

C1_Witness ==
    /\ op.name = "create"
    /\ res.tag = "ok"
    /\ validators
    /\ Len(data) = 2
    /\ data[2] = <<res.value, op.args>>

\* C2: whenever createMany, updateMany, deleteMany or import reports an error,
\* the in-memory collection after the call is the collection the slot decodes
\* to, and it is the collection from before the call.
C2_BatchErrorRestores ==
    [][(op'.name \in BatchCalls /\ res'.tag # "ok") =>
          (data' = Decoded(slot') /\ data' = data)]_vars

\* C3: after an import of a text whose entries all pass validation, the
\* in-memory map holds the whole collection from before the call or the whole
\* imported collection, and so does the slot, also when a write fails.
C3_ImportAtomic ==
    [][(/\ op'.name = "import"
        /\ JSONparse(op'.args).ok
        /\ \A i \in 1 .. Len(JSONparse(op'.args).entries) :
              validate(validators, JSONparse(op'.args).entries[i][2])) =>
          /\ data' \in {data, setAll(<<>>, JSONparse(op'.args).entries)}
          /\ Decoded(slot') \in {Decoded(slot),
                                 setAll(<<>>, JSONparse(op'.args).entries)}]_vars

\* an item of an updateMany list that names an absent id or whose merge with
\* the record in the Map fails validation
BadUpdate(d, v, u) ==
    \/ ~MapHas(d, u.id)
    \/ ~validate(v, spread(MapGet(d, u.id), u.data))

\* C4: an updateMany whose list holds a bad item, at any position, leaves
\* every record as it was, does not write the slot, and reports an error.
C4_UpdateManyAllOrNothing ==
    [][(/\ op'.name = "updateMany"
        /\ \E i \in 1 .. Len(op'.args) : BadUpdate(data, validators, op'.args[i])) =>
          /\ data' = data
          /\ slot' = slot
          /\ writes' = 0
          /\ res'.tag \in {"DOCUMENT_NOT_FOUND", "VALIDATION_FAILED"}]_vars

C4_Witness ==
    /\ op.name = "updateMany"
    /\ res.tag = "VALIDATION_FAILED"
    /\ res.value = 1
    /\ ~BadUpdate(data, validators, op.args[1])
    /\ spread(MapGet(data, op.args[1].id), op.args[1].data)
          # MapGet(data, op.args[1].id)

\* C5: a createMany whose list holds a record that fails validation inserts
\* nothing, generates no id and does not write the slot; a createMany whose
\* records are all valid inserts them all, in order, under new ids, and
\* writes the slot exactly once.
C5_CreateManyAllOrNothing ==
    [][op'.name = "createMany" =>
          IF \E i \in 1 .. Len(op'.args) : ~validate(validators, op'.args[i])
          THEN /\ data' = data
               /\ slot' = slot
               /\ gens' = 0
               /\ writes' = 0
               /\ res'.tag = "VALIDATION_FAILED"
          ELSE /\ res'.tag = "ok"
               /\ Len(res'.value) = Len(op'.args)
               /\ data' = data \o [i \in 1 .. Len(op'.args) |->
                                      <<res'.value[i], op'.args[i]>>]
               /\ Cardinality(MapKeys(data')) = Len(data) + Len(op'.args)
               /\ writes' = 1
               /\ slot' = JSONstringify(data')]_vars

C5_Witness ==
    /\ op.name = "createMany"
    /\ validators
    /\ Len(op.args) = 2
    /\ validate(validators, op.args[1])
    /\ ~validate(validators, op.args[2])
    /\ res.tag = "VALIDATION_FAILED"
    /\ Len(data) = 1

\* C6: a deleteMany whose list holds an id that is not in the collection
\* removes nothing, does not write the slot and reports document-not-found; a
\* deleteMany whose ids are all present removes exactly those ids, keeps
\* every other entry, and persists the result.
C6_DeleteManyAllOrNothing ==
    [][op'.name = "deleteMany" =>
          IF \E i \in 1 .. Len(op'.args) : ~MapHas(data, op'.args[i])
          THEN /\ data' = data
               /\ slot' = slot
               /\ writes' = 0
               /\ res'.tag = "DOCUMENT_NOT_FOUND"
          ELSE /\ res'.tag = "ok"
               /\ data' = SelectSeq(data,
                     LAMBDA e : \A i \in 1 .. Len(op'.args) : e[1] # op'.args[i])
               /\ slot' = JSONstringify(data')]_vars

C6_Witness ==
    /\ op.name = "deleteMany"
    /\ res.tag = "DOCUMENT_NOT_FOUND"
    /\ res.value = 1
    /\ MapHas(data, op.args[1])

\* C7: an import of a text that cannot be parsed, or one of whose entries
\* fails validation, leaves the in-memory map and the slot as they were and
\* reports an error.
C7_ImportRejects ==
    [][(/\ op'.name = "import"
        /\ \/ ~JSONparse(op'.args).ok
           \/ \E i \in 1 .. Len(JSONparse(op'.args).entries) :
                 ~validate(validators, JSONparse(op'.args).entries[i][2])) =>
          /\ data' = data
          /\ slot' = slot
          /\ writes' = 0
          /\ res'.tag \in {"IMPORT_ERROR", "VALIDATION_FAILED"}]_vars

C7_Witness ==
    /\ op.name = "import"
    /\ res.tag = "VALIDATION_FAILED"
    /\ JSONparse(op.args).ok
    /\ Len(JSONparse(op.args).entries) = 2
    /\ data # <<>>
    /\ slot = JSONstringify(data)

\* C8: export, then clear, then import of the exported text leaves the store
\* with the entries it had at the export, in the same order, and the slot with
\* the text of those entries.
C8_RoundTrip ==
    rt.phase = 3 =>
        /\ res.tag = "ok"
        /\ data = rt.snap
        /\ slot = JSONstringify(rt.snap)

C8_Witness ==
    /\ rt.phase = 3
    /\ op.name = "import"
    /\ Len(rt.snap) = 2
    /\ rt.snap[1][2] # rt.snap[2][2]

\* C9: after every mutating call that returns without error the slot holds the
\* text of the whole in-memory map in map order, and a store constructed on
\* that slot with the same validators holds the same entries.
C9_SlotMirrorsData ==
    (op.name \in MutatingCalls /\ res.tag = "ok") =>
        /\ slot = JSONstringify(data)
        /\ Database(1, slot, validators).res.tag = "ok"
        /\ Database(1, slot, validators).data = data

C9_Witness ==
    /\ op.name = "updateMany"
    /\ res.tag = "ok"
    /\ Len(op.args) = 2
    /\ Len(data) = 2
    /\ faults = 1

\* C10: in a store constructed with validators every record of the in-memory
\* map satisfies every declared field predicate, whatever calls succeeded or
\* failed before.
C10_RecordsValid ==
    (built /\ validators) =>
        \A i \in 1 .. Len(data) :
            \A f \in {"age", "money"} : validatorAccepts(f, data[i][2][f])

C10_Witness ==
    /\ built
    /\ validators
    /\ op.name = "updateMany"
    /\ res.tag = "ok"
    /\ Len(op.args) = 2
    /\ op.args[1].id = op.args[2].id
    /\ op.args[1].data # op.args[2].data

\* the ids of a Map in iteration order
KeyOrder(d) == [i \in 1 .. Len(d) |-> d[i][1]]

\* C11: an update that returns without error was given a present id; after
\* it the id maps to its earlier record with exactly the fields of the
\* partial record overwritten, the ids and their iteration order are as
\* before, and every other record is unchanged.
C11_UpdateOverwrites ==
    [][(op'.name = "update" /\ res'.tag = "ok") =>
          /\ MapHas(data, op'.args.id)
          /\ KeyOrder(data') = KeyOrder(data)
          /\ \A i \in 1 .. Len(data) :
                IF data[i][1] = op'.args.id
                THEN \A f \in {"age", "money"} :
                        data'[i][2][f] = IF f \in DOMAIN op'.args.data
                                         THEN op'.args.data[f]
                                         ELSE data[i][2][f]
                ELSE data'[i] = data[i]]_vars

C11_Witness ==
    /\ op.name = "update"
    /\ res.tag = "ok"
    /\ op.args.data = [age |-> 2]
    /\ Len(data) = 2
    /\ data[1] = <<op.args.id, [age |-> 2, money |-> 0]>>

\* C12: an update of an id that is not in the collection reports
\* document-not-found, an update whose merged record fails validation
\* reports validation-failed, and both leave the in-memory map and the slot
\* as they were.
C12_UpdateRejects ==
    [][op'.name = "update" =>
          /\ ~MapHas(data, op'.args.id) =>
                (res'.tag = "DOCUMENT_NOT_FOUND" /\ data' = data /\ slot' = slot)
          /\ (/\ MapHas(data, op'.args.id)
              /\ validators
              /\ \E f \in {"age", "money"} :
                    ~validatorAccepts(f,
                        IF f \in DOMAIN op'.args.data THEN op'.args.data[f]
                        ELSE MapGet(data, op'.args.id)[f])) =>
                (res'.tag = "VALIDATION_FAILED" /\ data' = data /\ slot' = slot)]_vars

C12_Witness ==
    /\ op.name = "update"
    /\ res.tag = "VALIDATION_FAILED"
    /\ op.args.data = [age |-> 0]
    /\ MapHas(data, op.args.id)
    /\ MapGet(data, op.args.id).age > 0
    /\ slot = JSONstringify(data)

\* C13: a create of a record that fails a validator inserts nothing,
\* generates no id, does not write the slot, and reports validation-failed
\* with every failing field in the detail.
C13_CreateRejects ==
    [][(/\ op'.name = "create"
        /\ validators
        /\ \E f \in {"age", "money"} : ~validatorAccepts(f, op'.args[f])) =>
          /\ data' = data
          /\ slot' = slot
          /\ gens' = 0
          /\ writes' = 0
          /\ res'.tag = "VALIDATION_FAILED"
          /\ res'.value = {f \in {"age", "money"} :
                              ~validatorAccepts(f, op'.args[f])}]_vars

C13_Witness ==
    /\ op.name = "create"
    /\ res.tag = "VALIDATION_FAILED"
    /\ res.value = {"age", "money"}
    /\ data # <<>>

\* C14: after a delete that returns without error findById of the id reports
\* document-not-found and every other id maps to its earlier record; a
\* delete of an id that is not in the collection reports document-not-found
\* and leaves the in-memory map and the slot as they were.
C14_DeleteThenFind ==
    [][op'.name = "delete" =>
          /\ res'.tag = "ok" =>
                /\ findById(data', op'.args).tag = "DOCUMENT_NOT_FOUND"
                /\ \A i \in 1 .. Len(data) :
                      data[i][1] # op'.args =>
                         /\ findById(data', data[i][1]).tag = "ok"
                         /\ findById(data', data[i][1]).value.data = data[i][2]
          /\ ~MapHas(data, op'.args) =>
                (res'.tag = "DOCUMENT_NOT_FOUND" /\ data' = data /\ slot' = slot)]_vars

C14_Witness ==
    /\ op.name = "delete"
    /\ res.tag = "ok"
    /\ Len(data) = 1
    /\ data[1][1] # op.args

\* 16 characters over 0-9a-f
IsHexId(id) ==
    /\ Len(id) = 16
    /\ \A i \in 1 .. 16 :
          \E c \in {"0", "1", "2", "3", "4", "5", "6", "7",
                    "8", "9", "a", "b", "c", "d", "e", "f"} : SubSeq(id, i, i) = c

\* C15: every id returned by create or createMany is 16 characters over
\* 0-9a-f and was not a key of the collection when it was generated, the ids
\* returned by one createMany are pairwise distinct, and no create or
\* createMany, failed or not, overwrites or moves an existing entry.
C15_FreshIds ==
    [][op'.name \in {"create", "createMany"} =>
          /\ IsPrefix(data, data')
          /\ (op'.name = "create" /\ res'.tag = "ok") =>
                (IsHexId(res'.value) /\ ~MapHas(data, res'.value))
          /\ (op'.name = "createMany" /\ res'.tag = "ok") =>
                \A i \in 1 .. Len(res'.value) :
                    /\ IsHexId(res'.value[i])
                    /\ ~MapHas(data, res'.value[i])
                    /\ \A j \in 1 .. (i - 1) : res'.value[j] # res'.value[i]]_vars

C15_Witness ==
    /\ op.name = "createMany"
    /\ res.tag = "ok"
    /\ Len(res.value) = 2
    /\ host.stream.n = maxAttempts - 1
    /\ Len(data) = 2
    /\ data[1][1] = drawn(host.stream, 1)
    /\ data[2][1] = drawn(host.stream, maxAttempts)

\* the stored list of a slot holds an entry that fails a validator
HoldsInvalid(s) ==
    /\ s # <<>>
    /\ JSONparse(s).ok
    /\ \E i \in 1 .. Len(JSONparse(s).entries) :
          \E f \in {"age", "money"} :
              ~validatorAccepts(f, JSONparse(s).entries[i][2][f])

\* the failing fields of the first entry of a stored list that fails a validator
FirstInvalid(s) ==
    LET es == JSONparse(s).entries
        fails(i) == {f \in {"age", "money"} : ~validatorAccepts(f, es[i][2][f])}
        first == CHOOSE i \in 1 .. Len(es) :
                     fails(i) # {} /\ \A j \in 1 .. (i - 1) : fails(j) = {}
    IN fails(first)

\* C16 as stated: construction with validators on a slot whose stored list
\* holds an entry that fails validation ends in an error tagged
\* initialization-error and produces no store.
C16_InitAbortsInitializationError ==
    (op.name = "constructor" /\ op.args \in 1 .. 16 /\ validators /\ HoldsInvalid(slot)) =>
        (res.tag = "INITIALIZATION_ERROR" /\ ~built)

\* C16: construction with validators on a slot whose stored list holds an
\* entry that fails validation ends, at the first such entry, in the
\* validation-failed error of that entry, and produces no store; the slot is
\* left as it was.
C16_InitAborts ==
    (op.name = "constructor" /\ op.args \in 1 .. 16 /\ validators /\ HoldsInvalid(slot)) =>
        /\ res.tag = "VALIDATION_FAILED"
        /\ res.value = FirstInvalid(slot)
        /\ ~built

C16_Witness ==
    /\ op.name = "constructor"
    /\ validators
    /\ HoldsInvalid(slot)
    /\ Len(JSONparse(slot).entries) = 2
    /\ res.tag = "VALIDATION_FAILED"
    /\ res.value = {"money"}
    /\ ~built

\* C17: a create of a valid record looks at the first 100 candidate ids of
\* the call and at no later one: it inserts the record under the first of
\* them that is not a key of the collection, and when all 100 are keys it
\* reports duplicate-key and leaves the in-memory map and the slot as they
\* were, whatever the 101st candidate would be.
C17_GenerateIdCapped ==
    [][(/\ op'.name = "create"
        /\ validators => \A f \in {"age", "money"} : validatorAccepts(f, op'.args[f])) =>
          LET taken(k) == MapHas(data, drawn(host'.stream, k))
          IN IF \A k \in 1 .. 100 : taken(k)
             THEN /\ res'.tag = "DUPLICATE_KEY"
                  /\ data' = data
                  /\ slot' = slot
                  /\ writes' = 0
             ELSE /\ res'.tag # "DUPLICATE_KEY"
                  /\ \E k \in 1 .. 100 :
                        /\ ~taken(k)
                        /\ \A j \in 1 .. (k - 1) : taken(j)
                        /\ data' = Append(data, <<drawn(host'.stream, k), op'.args>>)
                        /\ res'.tag = "ok" => res'.value = drawn(host'.stream, k)]_vars

C17_Witness ==
    /\ op.name = "create"
    /\ res.tag = "DUPLICATE_KEY"
    /\ Len(data) = 1
    /\ host.stream.n = 100
    /\ MapHas(data, drawn(host.stream, 100))
    /\ ~MapHas(data, drawn(host.stream, 101))

\* C20: construction with a collection name of length 0 or of length above
\* 16 ends in invalid-collection-name and produces no store, whatever the
\* slot holds (a text that cannot be parsed and a list with an invalid entry
\* included: the slot has not been looked at); construction with a name of
\* length 1 to 16 never ends in invalid-collection-name.
C20_NameLength ==
    op.name = "constructor" =>
        IF op.args = 0 \/ op.args > 16
        THEN res.tag = "INVALID_COLLECTION_NAME" /\ ~built /\ data = <<>>
        ELSE res.tag # "INVALID_COLLECTION_NAME"

C20_Witness ==
    /\ op.name = "constructor"
    /\ op.args = 17
    /\ res.tag = "INVALID_COLLECTION_NAME"
    /\ slot # <<>>
    /\ ~JSONparse(slot).ok

\* the k-th smallest element of a set of row numbers
Kth(I, k) == CHOOSE i \in I : Cardinality({j \in I : j < i}) = k - 1

\* row a comes strictly before row b under the sort keys taken in order
KeysBefore(a, b, keys) ==
    \E k \in 1 .. Len(keys) :
        /\ \A j \in 1 .. (k - 1) : a[keys[j][1]] = b[keys[j][1]]
        /\ IF keys[k][2] = "asc"
           THEN a[keys[k][1]] < b[keys[k][1]]
           ELSE a[keys[k][1]] > b[keys[k][1]]

\* C18: a query whose operators are filter operators and whose limit, when
\* given, is not negative returns the first `limit` (all, without a limit)
\* of: the entries on which every condition holds, ordered by the sort keys
\* in the order given, rows that tie on every key staying in map iteration
\* order; with condition age > 18, sort age descending and limit 2 over ages
\* 17, 20, 30, 25 that is the records with ages 30 and 25.  The in-memory
\* map and the slot are as before the call.
C18_Query ==
    [][(/\ op'.name = "query"
        /\ \A c \in 1 .. Len(op'.args.conditions) :
              op'.args.conditions[c].operator \in FilterOperators
        /\ op'.args.limit.given => op'.args.limit.n >= 0) =>
          LET F == {i \in 1 .. Len(data) :
                       \A c \in 1 .. Len(op'.args.conditions) :
                           evaluateCondition(data[i][2], op'.args.conditions[c])}
              Before(i, j) ==
                  \/ KeysBefore(data[i][2], data[j][2], op'.args.sort)
                  \/ /\ ~KeysBefore(data[j][2], data[i][2], op'.args.sort)
                     /\ i < j
              At(k) == CHOOSE i \in F : Cardinality({j \in F : Before(j, i)}) = k - 1
              size == IF op'.args.limit.given /\ op'.args.limit.n < Cardinality(F)
                      THEN op'.args.limit.n ELSE Cardinality(F)
          IN /\ res'.tag = "ok"
             /\ res'.value = [k \in 1 .. size |->
                                [id |-> data[At(k)][1], data |-> data[At(k)][2]]]
             /\ data' = data
             /\ slot' = slot]_vars

C18_Witness ==
    /\ op.name = "query"
    /\ op.args.conditions = <<Cond("age", ">", 18)>>
    /\ op.args.sort = <<<<"age", "desc">>>>
    /\ op.args.limit = [given |-> TRUE, n |-> 2]
    /\ Len(data) = 4
    /\ [i \in 1 .. 4 |-> data[i][2].age] = <<17, 20, 30, 25>>
    /\ res.tag = "ok"
    /\ [i \in 1 .. Len(res.value) |-> res.value[i].data.age] = <<30, 25>>

\* C19: findMany returns the {id, record} pairs whose record satisfies the
\* predicate (all pairs without a predicate) in map iteration order, and an
\* empty list, not an error, when there is none; findOne returns the first
\* element of that list, and reports document-not-found when it is empty.
C19_FindManyFindOne ==
    (/\ op.name \in {"findMany", "findOne"}
     /\ \A i \in 1 .. Len(data) : data[i][2] \notin op.args.throws) =>
        LET I == {i \in 1 .. Len(data) :
                     op.args.given => data[i][2] \in op.args.accepts}
        IN IF op.name = "findMany"
           THEN /\ res.tag = "ok"
                /\ res.value = [k \in 1 .. Cardinality(I) |->
                                  [id |-> data[Kth(I, k)][1],
                                   data |-> data[Kth(I, k)][2]]]
           ELSE IF I = {}
                THEN res.tag = "DOCUMENT_NOT_FOUND"
                ELSE /\ res.tag = "ok"
                     /\ res.value = [id |-> data[Kth(I, 1)][1],
                                     data |-> data[Kth(I, 1)][2]]
                     /\ res.value = findMany(data, op.args).value[1]

C19_Witness ==
    /\ op.name = "findOne"
    /\ res.tag = "ok"
    /\ Len(data) = 4
    /\ data[1][2] \notin op.args.accepts
    /\ res.value.id = data[2][1]
    /\ data[4][2] \in op.args.accepts

\* C21: when the write of the slot fails in an updateMany or a deleteMany
\* whose items all passed the checks, the in-memory map is the one from
\* before the call, ids, records and order, the slot keeps its value, and
\* storage-write-error is reported.
C21_BatchWriteFailureRestores ==
    [][(/\ op'.name \in {"updateMany", "deleteMany"}
        /\ ~host'.w[1]
        /\ IF op'.name = "updateMany"
           THEN \A i \in 1 .. Len(op'.args) : ~BadUpdate(data, validators, op'.args[i])
           ELSE \A i \in 1 .. Len(op'.args) : MapHas(data, op'.args[i])) =>
          /\ res'.tag = "STORAGE_WRITE_ERROR"
          /\ data' = data
          /\ slot' = slot
          /\ writes' = 0]_vars

C21_Witness ==
    /\ op.name = "updateMany"
    /\ res.tag = "STORAGE_WRITE_ERROR"
    /\ ~host.w[1]
    /\ Len(op.args) = 2
    /\ Len(data) = 2
    /\ applyUpdates(data, op.args) # data
    /\ slot = JSONstringify(data)

\* the calls update(u1); ...; update(un) made one after the other on a host
\* that fails no write, stopping at the first that reports an error
RECURSIVE UpdatesInTurn(_, _, _, _)
UpdatesInTurn(d, s, v, updates) ==
    IF updates = <<>> THEN Outcome(d, s, Ok(""), 0, 0)
    ELSE LET out == update(d, s, v, updates[1].id, updates[1].data,
                           [w |-> <<TRUE>>, stream |-> AnyStream])
         IN IF out.res.tag # "ok" THEN out
            ELSE UpdatesInTurn(out.data, out.slot, v, Tail(updates))

\* C22: on a host that fails no write, updateMany(u1..un) returns without
\* error exactly when update(u1); ...; update(un) would, and then it leaves
\* the collection that sequence leaves, in memory and in the slot: items
\* naming the same id are applied in order, later fields over earlier ones.
C22_UpdateManyAsUpdates ==
    [][op'.name = "updateMany" =>
          LET inTurn == UpdatesInTurn(data, slot, validators, op'.args)
          IN /\ (res'.tag = "ok") <=> (inTurn.res.tag = "ok")
             /\ res'.tag = "ok" =>
                   /\ data' = inTurn.data
                   /\ Decoded(slot') = Decoded(inTurn.slot)]_vars

C22_Witness ==
    /\ op.name = "updateMany"
    /\ res.tag = "ok"
    /\ validators
    /\ Len(op.args) = 2
    /\ op.args[1].id = op.args[2].id
    /\ op.args[1].data = [money |-> 1]
    /\ op.args[2].data = [age |-> 2]
    /\ Len(data) = 2
    /\ MapGet(data, op.args[1].id) = [age |-> 2, money |-> 1]

ReadCalls == {"findById", "findOne", "findMany", "findLike", "query", "export"}

\* C23: findById, findOne, findMany, findLike, query and export leave the
\* in-memory map, its ids, records and order, as it was and do not write the
\* slot, whether they return a result or report an error.
C23_ReadsChangeNothing ==
    [][op'.name \in ReadCalls =>
          /\ data' = data
          /\ slot' = slot
          /\ writes' = 0
          /\ gens' = 0]_vars

C23_Witness ==
    /\ op.name = "query"
    /\ res.tag = "INVALID_QUERY"
    /\ op.args.sort = <<<<"age", "desc">>>>
    /\ Len(data) = 4
    /\ data[1][2].age < data[2][2].age
    /\ data[4][2].money = 1

====
